---- MODULE Spec2Model ----
(***************************************************************************)
(* Model of src/Inicio.py: a Streamlit page that geocodes a city, looks up *)
(* the nearest Meteostat stations, fetches a daily or hourly series and    *)
(* renders it.  One script run is modelled stage by stage (pc), the        *)
(* st.cache_data caches persist from one run to the next, and the clock    *)
(* advances between steps.                                                 *)
(***************************************************************************)
EXTENDS Integers, Sequences, FiniteSets, TLC

VARIABLES
    pc,                   \* position of the running script
    runs,                 \* number of script runs started
    now,                  \* wall clock, seconds
    country, city, period, granularity,          \* sidebar widgets (72-80)
    start_d, end_d,                               \* normalised dates (83-86)
    places, place_labels, place_idx, lat, lon, elev,
    st_df, default_station_id, default_station_name,
    station_idx, station_label, station_id, written_station,
    df, numeric_cols, default_cols, selected_cols, csv_bytes,
    shown,                \* what the run has rendered so far, in order
    calls,                \* this run's calls of the services, in order
    cache,                \* st.cache_data: one table per decorated function
    log                   \* every call of a memoized function, in order

vars == << pc, runs, now, country, city, period, granularity, start_d, end_d,
           places, place_labels, place_idx, lat, lon, elev,
           st_df, default_station_id, default_station_name,
           station_idx, station_label, station_id, written_station,
           df, numeric_cols, default_cols, selected_cols, csv_bytes,
           shown, calls, cache, log >>

(***************************************************************************)
(* Bounds of the model.                                                    *)
(***************************************************************************)
MaxRuns == 2          \* script runs in one behaviour
MaxDay == 2           \* days the date picker offers: 1..MaxDay
MaxNow == 3600        \* the clock stops advancing here
TickSeconds == 1800    \* one step of the clock
MaxCalls == 3         \* direct calls of the memoized functions (SpecCache)
MaxCoord == 2         \* latitudes of the geocoder's candidates: 1..MaxCoord
MaxPlaces == 2        \* candidates in one geocoding result
MaxStations == 2      \* rows of one station table
MaxCols == 2          \* columns of one fetched frame
MaxRows == 2          \* rows of one fetched frame

(***************************************************************************)
(* Python values.                                                          *)
(***************************************************************************)
\* a datetime.date
DateVal(d) == [isDate |-> TRUE, day |-> d, items |-> << >>]
\* a tuple that is not a date (st.date_input mid-selection returns a 1-tuple)
TupleVal(s) == [isDate |-> FALSE, day |-> 0, items |-> s]
\* datetime.combine(d, time(h, m))
Combine(d, h, m) == [day |-> d.day, hour |-> h, minute |-> m, second |-> 0]

None == << >>
Returned(v) == [raised |-> FALSE, value |-> v]
Raised == [raised |-> TRUE, value |-> << >>]

(***************************************************************************)
(* st.cache_data(ttl=...): a table per function, keyed by the arguments,   *)
(* each entry valid until ttl seconds after it was stored.                 *)
(***************************************************************************)
TTL_GEOCODE == 60 * 60
TTL_STATIONS == 60 * 60
TTL_SERIES == 60 * 30

CachedFns == {"geocode_city_country", "nearby_stations", "fetch_daily", "fetch_hourly"}

\* one hour for every function
ttlOneHour(fn) == 60 * 60

ttl(fn) ==
    CASE fn = "geocode_city_country" -> TTL_GEOCODE
      [] fn = "nearby_stations" -> TTL_STATIONS
      [] fn = "fetch_daily" -> TTL_SERIES
      [] fn = "fetch_hourly" -> TTL_SERIES

EmptyTable == [k \in {} |-> 0]

\* the key of a call: the full argument tuple
CacheKey(fn, args) == args

\* an unexpired entry is stored for this call
CacheHit(fn, args) ==
    /\ CacheKey(fn, args) \in DOMAIN cache[fn]
    /\ now < cache[fn][CacheKey(fn, args)].expires

\* what the decorated function returns (or raises): the stored value on a
\* hit, otherwise whatever the function body does now
CachedResult(fn, args, outcome) ==
    IF CacheHit(fn, args)
    THEN Returned(cache[fn][CacheKey(fn, args)].value)
    ELSE outcome

Put(table, k, e) ==
    [x \in (DOMAIN table) \cup {k} |-> IF x = k THEN e ELSE table[x]]

\* the cache after the call: a miss that returns stores its result
CacheAfter(fn, args, outcome) ==
    IF CacheHit(fn, args) \/ outcome.raised
    THEN cache
    ELSE [cache EXCEPT ![fn] =
            Put(@, CacheKey(fn, args),
                [value |-> outcome.value, expires |-> now + ttl(fn)])]

\* one call as the run sees it: the request the function body made, if it
\* ran that far, and what came back
CallEntry(fn, args, outcome, requests) ==
    [fn |-> fn, args |-> args,
     request |-> IF CacheHit(fn, args) THEN << >> ELSE requests,
     result |-> CachedResult(fn, args, outcome)]

LogAfter(fn, args, outcome) ==
    Append(log, [fn |-> fn, args |-> args, t |-> now,
                 invoked |-> ~CacheHit(fn, args),
                 result |-> CachedResult(fn, args, outcome)])

(***************************************************************************)
(* Strings are sequences of characters.                                    *)
(***************************************************************************)
\* U+2014, the separator of the labels
Dash == "EM DASH"
Space == " "

RECURSIVE FirstIndex(_, _, _)
\* list.index(x) / str.find(c): position of the first occurrence from i on,
\* 0 when there is none
FirstIndex(s, x, i) ==
    IF i > Len(s) THEN 0
    ELSE IF s[i] = x THEN i
    ELSE FirstIndex(s, x, i + 1)

\* s.split(sep)[0]: everything before the first separator
SplitFirst(s, sep) ==
    LET k == FirstIndex(s, sep, 1)
    IN  IF k = 0 THEN s ELSE SubSeq(s, 1, k - 1)

RECURSIVE LStrip(_)
LStrip(s) == IF s # << >> /\ Head(s) = Space THEN LStrip(Tail(s)) ELSE s

RECURSIVE RStrip(_)
RStrip(s) ==
    IF s # << >> /\ s[Len(s)] = Space THEN RStrip(SubSeq(s, 1, Len(s) - 1)) ELSE s

\* str.strip()
Strip(s) == RStrip(LStrip(s))

RECURSIVE Digits(_)
\* str(n) of a natural number
Digits(n) ==
    LET d == << "0", "1", "2", "3", "4", "5", "6", "7", "8", "9" >>
    IN  IF n < 10 THEN << d[n + 1] >> ELSE Digits(n \div 10) \o << d[(n % 10) + 1] >>

(***************************************************************************)
(* Sidebar and date check (lines 69-90).                                   *)
(***************************************************************************)
Daily == << "Diario", "(recomendado)" >>
Hourly == << "Horario" >>
GranularityOptions == { Daily, Hourly }

\* lines 83-86
NormStart(per) == IF Len(per) = 2 THEN DateVal(per[1]) ELSE TupleVal(per)
NormEnd(per) == IF Len(per) = 2 THEN DateVal(per[2]) ELSE TupleVal(per)

\* the comparison of line 88 turned round
StartAfterEndSwapped(s, e) == s.isDate /\ e.isDate /\ s.day < e.day

\* line 88: start_d > end_d (in the else branch both are the same object)
StartAfterEnd(s, e) == s.isDate /\ e.isDate /\ s.day > e.day

NoTable == [hasName |-> FALSE, rows |-> << >>]
NoStation == [id |-> << >>, name |-> << >>]
NoFrame == [hourly |-> FALSE, cols |-> << >>, rows |-> << >>]

\* the script starts from the top: nothing of an earlier run is left
FreshRun ==
    /\ places' = << >> /\ place_labels' = << >> /\ place_idx' = 0
    /\ lat' = 0 /\ lon' = 0 /\ elev' = 0
    /\ st_df' = NoTable /\ default_station_id' = << >>
    /\ default_station_name' = << >>
    /\ station_idx' = 0 /\ station_label' = << >> /\ station_id' = << >>
    /\ written_station' = NoStation
    /\ df' = NoFrame /\ numeric_cols' = << >> /\ default_cols' = << >>
    /\ selected_cols' = << >> /\ csv_bytes' = << >>
    /\ calls' = << >>

paramVars == << country, city, period, granularity, start_d, end_d >>
placeVars == << places, place_labels, place_idx, lat, lon, elev >>
stationVars == << st_df, default_station_id, default_station_name >>
pickVars == << station_idx, station_label, station_id, written_station >>
renderVars == << numeric_cols, default_cols, selected_cols, csv_bytes >>

Terminal == { "halted", "crashed", "done" }

\* an interaction reruns the script with the widgets' values (lines 69-90)
Start(cty, cit, per, gran) ==
    /\ pc \in Terminal \cup { "awaiting" }
    /\ runs < MaxRuns
    /\ runs' = runs + 1
    /\ country' = cty /\ city' = cit /\ period' = per /\ granularity' = gran
    /\ start_d' = NormStart(per)
    /\ end_d' = NormEnd(per)
    /\ IF StartAfterEnd(NormStart(per), NormEnd(per))
       THEN /\ shown' = << "error: date" >>
            /\ pc' = "halted"
       ELSE /\ shown' = << >>
            /\ pc' = "geocode"
    /\ FreshRun
    /\ UNCHANGED << now, cache, log >>

(***************************************************************************)
(* 1) Geocode (lines 17-34, 95-131).                                       *)
(***************************************************************************)
GeocodeArgs == << city, country, 10, "pt" >>

\* line 24: f"{city}, {country}".strip().strip(",")
GeocodeQuery == << city, ",", country >>

\* line 112 without the coordinates
PlaceLabelNoCoords(p) == << p.name, p.admin1, p.admin2, p.country >>

\* line 112
PlaceLabel(p) == << p.name, p.admin1, p.admin2, p.country, p.latitude, p.longitude >>

PlaceLabels(ps) == [i \in 1..Len(ps) |-> PlaceLabel(ps[i])]

\* line 102 left out
NoPlacesUnchecked(ps) == FALSE

\* line 102: not places
NoPlaces(ps) == ps = << >>

Geocode(outcome) ==
    /\ pc = "geocode"
    /\ LET r == CachedResult("geocode_city_country", GeocodeArgs, outcome)
       IN  /\ calls' = Append(calls,
                   CallEntry("geocode_city_country", GeocodeArgs, outcome,
                             << [fn |-> "requests.get", args |-> GeocodeQuery] >>))
           /\ IF r.raised
              THEN /\ shown' = Append(shown, "error: geocode")
                   /\ pc' = "halted"
                   /\ UNCHANGED << places, place_labels >>
              ELSE IF NoPlaces(r.value)
              THEN /\ shown' = Append(shown, "warning: no place")
                   /\ pc' = "halted"
                   /\ UNCHANGED << places, place_labels >>
              ELSE /\ places' = r.value
                   /\ place_labels' = PlaceLabels(r.value)
                   /\ shown' = shown
                   /\ pc' = "select_place"
    /\ cache' = CacheAfter("geocode_city_country", GeocodeArgs, outcome)
    /\ log' = LogAfter("geocode_city_country", GeocodeArgs, outcome)
    /\ UNCHANGED << runs, now, paramVars, place_idx, lat, lon, elev, stationVars,
                    pickVars, df, renderVars >>

\* float(x) of a JSON number
ToFloat(x) == x

\* line 116: places[place_labels.index(selected_place_label)]
SelectedPlace(label) == places[FirstIndex(place_labels, label, 1)]

\* line 120: float(selected_place.get("elevation") or 0.0)
Elevation(p) == IF p.elevation = None \/ p.elevation[1] = 0 THEN 0 ELSE ToFloat(p.elevation[1])

\* lines 115-131: the user's entry i of the select box
SelectPlace(i) ==
    /\ pc = "select_place"
    /\ i \in 1..Len(place_labels)
    /\ place_idx' = i
    /\ LET selected_place == SelectedPlace(place_labels[i])
       IN  /\ lat' = ToFloat(selected_place.latitude)
           /\ lon' = ToFloat(selected_place.longitude)
           /\ elev' = Elevation(selected_place)
    /\ shown' = shown \o << "selectbox: place", "expander: place details" >>
    /\ pc' = "stations"
    /\ UNCHANGED << runs, now, paramVars, places, place_labels, stationVars,
                    pickVars, df, renderVars, calls, cache, log >>

(***************************************************************************)
(* 2) Stations (lines 39-46, 136-169).                                     *)
(***************************************************************************)
NearbyArgs == << lat, lon, elev >>

\* DataFrame.empty: no rows, or no columns
TableEmpty(t) == Len(t.rows) = 0

SemNome == << "(", "s", "e", "m", Space, "n", "o", "m", "e", ")" >>

\* line 154: f"{r['id']} -- {r.get('name','(sem nome)')} (distancia: {int(...)} m)"
StationLabel(t, r) ==
    r.id \o << Space, Dash, Space >> \o (IF t.hasName THEN r.name ELSE SemNome)
         \o << Space, "(", "d", ":", Space >> \o Digits(r.distance)
         \o << Space, "m", ")" >>

StationLabels(t) == [j \in 1..Len(t.rows) |-> StationLabel(t, t.rows[j])]

\* line 158 without .strip()
StationIdUnstripped(label) == SplitFirst(label, Dash)

\* line 158: station_label.split(DASH)[0].strip()
StationIdOf(label) == Strip(SplitFirst(label, Dash))

\* line 149
DefaultStationName(t) == IF t.hasName THEN t.rows[1].name ELSE t.rows[1].id

\* line 162: st.write(f"**{station_id}** -- {default_station_name}")
WrittenStation(id) == [id |-> id, name |-> default_station_name]

Stations(outcome) ==
    /\ pc = "stations"
    /\ LET r == CachedResult("nearby_stations", NearbyArgs, outcome)
       IN  /\ calls' = Append(calls,
                   CallEntry("nearby_stations", NearbyArgs, outcome,
                             << [fn |-> "ms.stations.nearby", args |-> NearbyArgs] >>))
           /\ IF r.raised
              THEN /\ shown' = Append(shown, "error: stations")
                   /\ pc' = "halted"
                   /\ UNCHANGED stationVars
              ELSE IF TableEmpty(r.value)
              THEN /\ shown' = Append(shown, "warning: no station")
                   /\ pc' = "halted"
                   /\ st_df' = r.value
                   /\ UNCHANGED << default_station_id, default_station_name >>
              ELSE /\ st_df' = r.value
                   /\ default_station_id' = r.value.rows[1].id
                   /\ default_station_name' = DefaultStationName(r.value)
                   /\ shown' = shown
                   /\ pc' = "select_station"
    /\ cache' = CacheAfter("nearby_stations", NearbyArgs, outcome)
    /\ log' = LogAfter("nearby_stations", NearbyArgs, outcome)
    /\ UNCHANGED << runs, now, paramVars, placeVars, pickVars, df, renderVars >>

\* lines 152-162: the user's entry j of the station select box
SelectStation(j) ==
    /\ pc = "select_station"
    /\ j \in 1..Len(st_df.rows)
    /\ station_idx' = j
    /\ station_label' = StationLabels(st_df)[j]
    /\ station_id' = StationIdOf(StationLabels(st_df)[j])
    /\ written_station' = WrittenStation(StationIdOf(StationLabels(st_df)[j]))
    /\ shown' = shown \o << "expander: station", "subheader: station", "write: station" >>
    /\ pc' = "inventory"
    /\ UNCHANGED << runs, now, paramVars, placeVars, stationVars, df,
                    renderVars, calls, cache, log >>

\* lines 165-169: not memoized, and not inside a try
Inventory(outcome) ==
    /\ pc = "inventory"
    /\ calls' = Append(calls,
            [fn |-> "ms.stations.inventory", args |-> << station_id >>,
             request |-> << [fn |-> "ms.stations.inventory", args |-> << station_id >>] >>,
             result |-> outcome])
    /\ IF outcome.raised
       THEN /\ pc' = "crashed"
            /\ shown' = shown
       ELSE /\ pc' = "fetch"
            /\ shown' = shown \o << "expander: inventory" >>
    /\ UNCHANGED << runs, now, paramVars, placeVars, stationVars, pickVars, df,
                    renderVars, cache, log >>

(***************************************************************************)
(* 3) Series (lines 48-58, 174-189).                                       *)
(***************************************************************************)
\* line 176: granularity.startswith("Diario")
IsDaily(g) == Len(g) >= 1 /\ g[1] = "Diario"

SeriesFn == IF IsDaily(granularity) THEN "fetch_daily" ELSE "fetch_hourly"

SeriesArgs == << station_id, start_d, end_d >>

\* lines 55-57 with time(0, 0) for the end as well
SeriesRequestMidnight(fn, args) ==
    IF fn = "fetch_daily"
    THEN [fn |-> "ms.daily", args |-> << args[1], args[2], args[3] >>]
    ELSE [fn |-> "ms.hourly",
          args |-> << args[1], Combine(args[2], 0, 0), Combine(args[3], 0, 0) >>]

\* lines 50 and 55-57: the request the function body makes
SeriesRequest(fn, args) ==
    IF fn = "fetch_daily"
    THEN [fn |-> "ms.daily", args |-> << args[1], args[2], args[3] >>]
    ELSE [fn |-> "ms.hourly",
          args |-> << args[1], Combine(args[2], 0, 0), Combine(args[3], 23, 59) >>]

\* datetime.combine raises on anything but a date, before any request
BodyRaisesFirst(fn, args) ==
    fn = "fetch_hourly" /\ ~(args[2].isDate /\ args[3].isDate)

SeriesOutcome(fn, args, outcome) ==
    IF BodyRaisesFirst(fn, args) THEN Raised ELSE outcome

\* DataFrame.empty
FrameEmpty(f) == Len(f.rows) = 0 \/ Len(f.cols) = 0

Fetch(outcome) ==
    /\ pc = "fetch"
    /\ LET fn == SeriesFn
           out == SeriesOutcome(fn, SeriesArgs, outcome)
           r == CachedResult(fn, SeriesArgs, out)
       IN  /\ calls' = Append(calls,
                   CallEntry(fn, SeriesArgs, out,
                             IF BodyRaisesFirst(fn, SeriesArgs) THEN << >>
                             ELSE << SeriesRequest(fn, SeriesArgs) >>))
           /\ IF r.raised
              THEN /\ shown' = Append(shown, "error: series")
                   /\ pc' = "halted"
                   /\ df' = df
              ELSE IF FrameEmpty(r.value)
              THEN /\ shown' = Append(shown, "warning: empty series")
                   /\ pc' = "halted"
                   /\ df' = r.value
              ELSE /\ df' = r.value
                   /\ shown' = shown \o << "subheader: preview", "dataframe: preview" >>
                   /\ pc' = "render"
           /\ cache' = CacheAfter(fn, SeriesArgs, out)
           /\ log' = LogAfter(fn, SeriesArgs, out)
    /\ UNCHANGED << runs, now, paramVars, placeVars, stationVars, pickVars, renderVars >>

(***************************************************************************)
(* 4) Charts and download (lines 60-64, 194-219).                          *)
(***************************************************************************)
Col_time == << "t", "i", "m", "e" >>
Col_temp == << "t", "e", "m", "p" >>
Col_tmin == << "t", "m", "i", "n" >>
Col_tmax == << "t", "m", "a", "x" >>
Col_prcp == << "p", "r", "c", "p" >>
Col_wspd == << "w", "s", "p", "d" >>
Col_pres == << "p", "r", "e", "s" >>
Col_rhum == << "r", "h", "u", "m" >>
Col_snow == << "s", "n", "o", "w" >>
Col_coco == << "c", "o", "c", "o" >>

NaN == << >>

\* df.reset_index(): the index becomes the first column, named "time"
ResetIndexCols(f) == << [name |-> Col_time, numeric |-> FALSE] >> \o f.cols

InSeq(x, s) == \E i \in 1..Len(s) : s[i] = x

ColNames(cs) == [i \in 1..Len(cs) |-> cs[i].name]

\* line 196
NumericCols(f) ==
    ColNames(SelectSeq(ResetIndexCols(f),
                       LAMBDA c : c.name # Col_time /\ c.numeric))

\* line 199 with the comprehension turned round
DefaultColsInFrameOrder(numeric) ==
    SelectSeq(numeric, LAMBDA c : c \in { Col_temp, Col_tmin, Col_tmax, Col_prcp,
                                          Col_wspd, Col_pres, Col_rhum })

\* line 199
DefaultList == << Col_temp, Col_tmin, Col_tmax, Col_prcp, Col_wspd, Col_pres, Col_rhum >>

DefaultCols(numeric) == SelectSeq(DefaultList, LAMBDA c : InSeq(c, numeric))

\* line 200: default_cols or numeric_cols[:2]
MultiselectDefault(dflt, numeric) ==
    IF dflt # << >> THEN dflt
    ELSE SubSeq(numeric, 1, IF Len(numeric) < 2 THEN Len(numeric) ELSE 2)

Newline == "\n"
Comma == ","

\* all rows of the index are at midnight: pandas then writes the date alone
DateOnly(f) == \A i \in 1..Len(f.rows) : f.rows[i].time.hour = 0

FormatTime(t, dateOnly) ==
    IF dateOnly THEN Digits(t.day) ELSE Digits(t.day) \o << Space >> \o Digits(t.hour)

\* a missing value is written as the empty field
FormatCell(c) == IF c = NaN THEN << >> ELSE Digits(c[1]) \o << ".", "0" >>

RECURSIVE JoinFields(_)
JoinFields(fields) ==
    IF fields = << >> THEN << >>
    ELSE IF Len(fields) = 1 THEN fields[1]
    ELSE fields[1] \o << Comma >> \o JoinFields(Tail(fields))

RECURSIVE JoinLines(_)
JoinLines(lines) ==
    IF lines = << >> THEN << >>
    ELSE JoinFields(lines[1]) \o << Newline >> \o JoinLines(Tail(lines))

\* line 62 left out: to_csv(index=False) of df itself
ResetIndexLeftOut(f) ==
    [cols |-> ColNames(f.cols),
     rows |-> [i \in 1..Len(f.rows) |->
                 [k \in 1..Len(f.rows[i].vals) |-> FormatCell(f.rows[i].vals[k])]]]

\* line 62: the columns and the rows of df.reset_index()
ResetIndex(f) ==
    [cols |-> ColNames(ResetIndexCols(f)),
     rows |-> [i \in 1..Len(f.rows) |->
                 << FormatTime(f.rows[i].time, DateOnly(f)) >>
                 \o [k \in 1..Len(f.rows[i].vals) |-> FormatCell(f.rows[i].vals[k])]]]

\* line 63: to_csv(buf, index=False)
ToCsv(t) == JoinLines(<< t.cols >> \o t.rows)

AsciiTable ==
    << << "\n", 10 >>,
       << " ", 32 >>,
       << ",", 44 >>,
       << ".", 46 >>,
       << "0", 48 >>,
       << "1", 49 >>,
       << "2", 50 >>,
       << "3", 51 >>,
       << "4", 52 >>,
       << "5", 53 >>,
       << "6", 54 >>,
       << "7", 55 >>,
       << "8", 56 >>,
       << "9", 57 >>,
       << "a", 97 >>,
       << "b", 98 >>,
       << "c", 99 >>,
       << "d", 100 >>,
       << "e", 101 >>,
       << "f", 102 >>,
       << "g", 103 >>,
       << "h", 104 >>,
       << "i", 105 >>,
       << "j", 106 >>,
       << "k", 107 >>,
       << "l", 108 >>,
       << "m", 109 >>,
       << "n", 110 >>,
       << "o", 111 >>,
       << "p", 112 >>,
       << "q", 113 >>,
       << "r", 114 >>,
       << "s", 115 >>,
       << "t", 116 >>,
       << "u", 117 >>,
       << "v", 118 >>,
       << "w", 119 >>,
       << "x", 120 >>,
       << "y", 121 >>,
       << "z", 122 >> >>

\* the UTF-8 code of a character (all of them ASCII here)
Code(ch) == LET i == CHOOSE i \in 1..Len(AsciiTable) : AsciiTable[i][1] = ch
            IN  AsciiTable[i][2]

\* line 64: .encode("utf-8")
EncodeUtf8(s) == [i \in 1..Len(s) |-> Code(s[i])]

\* lines 60-64
df_to_csv_bytes(f) == EncodeUtf8(ToCsv(ResetIndex(f)))

\* lines 202-211
Charts(selected) ==
    IF selected # << >>
    THEN << "plotly: line" >> \o
         (IF InSeq(Col_prcp, selected) THEN << "plotly: bar prcp" >> ELSE << >>)
    ELSE << "info: select a variable" >>

\* lines 194-219; keep = TRUE leaves the multiselect at its default
Render(keep, choice) ==
    /\ pc = "render"
    /\ numeric_cols' = NumericCols(df)
    /\ default_cols' = DefaultCols(NumericCols(df))
    /\ LET dflt == MultiselectDefault(DefaultCols(NumericCols(df)), NumericCols(df))
           sel == IF keep THEN dflt
                  ELSE SelectSeq(NumericCols(df), LAMBDA c : c \in choice)
       IN  /\ selected_cols' = sel
           /\ shown' = shown \o << "subheader: charts", "multiselect" >> \o Charts(sel)
                             \o << "subheader: download", "download_button" >>
    /\ csv_bytes' = df_to_csv_bytes(df)
    /\ pc' = "done"
    /\ UNCHANGED << runs, now, paramVars, placeVars, stationVars, pickVars, df,
                    calls, cache, log >>

\* time passes between two interactions (a run takes seconds, a step of the
\* clock is half an hour)
Tick ==
    /\ pc \in Terminal \cup { "awaiting" }
    /\ now < MaxNow
    /\ now' = now + TickSeconds
    /\ UNCHANGED << pc, runs, paramVars, placeVars, stationVars, pickVars, df,
                    renderVars, shown, calls, cache, log >>

(***************************************************************************)
(* What the user can enter and what the services can answer.               *)
(***************************************************************************)
SeqsOf(S, lo, hi) == UNION { [1..k -> S] : k \in lo..hi }

Injective(s) == \A i, j \in 1..Len(s) : i # j => s[i] # s[j]

Cities == { "Brisbane", "Xyzzy" }
FlowCities == { "Brisbane" }
\* st.date_input with a range value: a 2-tuple, or a 1-tuple mid-selection
Periods == SeqsOf(1..MaxDay, 1, 2)
FlowPeriods == { << 1, 2 >>, << 2, 1 >>, << 1 >> }

Place(la, lo, el) ==
    [name |-> "Brisbane", admin1 |-> "Queensland", admin2 |-> "",
     country |-> "Australia", latitude |-> la, longitude |-> lo, elevation |-> el]

PlaceSet == { Place(la, lo, el) : la \in 1..MaxCoord, lo \in { 152, 153 },
                                  el \in { None, << 27 >> } }
AllPlaceLists == SeqsOf(PlaceSet, 0, MaxPlaces)
FlowPlaceLists == { << >>, << Place(1, 153, << 27 >>) >> }
OnePlaceList == { << Place(1, 153, << 27 >>) >> }

Station(id, name, dist) == [id |-> id, name |-> name, distance |-> dist]

StationIds == { << "9", "4" >>, << "K", "0" >>, << "7" >> }
StationNames == { << "B", "N", "E" >>, << "B", Space, Dash, Space, "A" >>, << Dash >> }
StationSet == { Station(id, nm, di) : id \in StationIds, nm \in StationNames,
                                      di \in { 0, 1204 } }
\* the station identifier is the index of the directory: no two rows share it
AllStationTables ==
    { [hasName |-> h, rows |-> rs] :
        h \in BOOLEAN,
        rs \in { r \in SeqsOf(StationSet, 0, MaxStations) :
                   Injective([i \in 1..Len(r) |-> r[i].id]) } }
FlowStationTables ==
    { [hasName |-> TRUE, rows |-> << >>],
      [hasName |-> TRUE, rows |-> << Station(<< "9", "4" >>, << "B", "N", "E" >>, 0) >>] }
OneStationTable ==
    { [hasName |-> TRUE, rows |-> << Station(<< "9", "4" >>, << "B", "N", "E" >>, 0) >>] }

Times == { [day |-> d, hour |-> h] : d \in 1..MaxDay, h \in { 0, 13 } }
TimeBefore(a, b) == a.day < b.day \/ (a.day = b.day /\ a.hour < b.hour)
\* a time series: the index increases strictly
Indexes(n) == { ix \in SeqsOf(Times, 0, n) :
                  \A i \in 1..(Len(ix) - 1) : TimeBefore(ix[i], ix[i + 1]) }
Cells == { NaN, << 3 >> }

Frame(cols, ix, cells) ==
    [hourly |-> ~(\A i \in 1..Len(ix) : ix[i].hour = 0),
     cols |-> cols,
     rows |-> [i \in 1..Len(ix) |-> [time |-> ix[i], vals |-> cells[i]]]]

ColumnSet == { [name |-> n, numeric |-> b] :
                 n \in { Col_temp, Col_prcp, Col_snow, Col_coco }, b \in BOOLEAN }
ColumnLists(n) == { cs \in SeqsOf(ColumnSet, 0, n) : Injective(ColNames(cs)) }

\* frames of every column list, one row each
WideFrames ==
    { Frame(cs, << [day |-> 1, hour |-> 0] >>, << [k \in 1..Len(cs) |-> << 3 >>] >>) :
        cs \in ColumnLists(MaxCols) }
\* frames of every index and every pattern of missing values
LongFrames ==
    UNION { { Frame(cs, ix, cells) :
                cells \in [1..Len(ix) -> [1..Len(cs) -> Cells]] } :
            cs \in { << [name |-> Col_prcp, numeric |-> TRUE] >>,
                     << [name |-> Col_temp, numeric |-> TRUE],
                        [name |-> Col_coco, numeric |-> FALSE] >> },
            ix \in Indexes(MaxRows) }
AllFrames == WideFrames \cup LongFrames
FlowFrames ==
    { Frame(<< [name |-> Col_temp, numeric |-> TRUE] >>, << >>, << >>),
      Frame(<< [name |-> Col_temp, numeric |-> TRUE],
               [name |-> Col_prcp, numeric |-> TRUE] >>,
            << [day |-> 1, hour |-> 0] >>, << << << 3 >>, NaN >> >>) }

Inventories == { [start |-> 1, end |-> 2] }

Outcomes(values) == { Raised } \cup { Returned(v) : v \in values }

(***************************************************************************)
(* The page as first opened, and the script's stages.                      *)
(***************************************************************************)
Blank ==
    /\ places = << >> /\ place_labels = << >> /\ place_idx = 0
    /\ lat = 0 /\ lon = 0 /\ elev = 0
    /\ st_df = NoTable /\ default_station_id = << >>
    /\ default_station_name = << >>
    /\ station_idx = 0 /\ station_label = << >> /\ station_id = << >>
    /\ written_station = NoStation
    /\ df = NoFrame /\ numeric_cols = << >> /\ default_cols = << >>
    /\ selected_cols = << >> /\ csv_bytes = << >>
    /\ shown = << >> /\ calls = << >>
    /\ cache = [fn \in CachedFns |-> EmptyTable]
    /\ log = << >>
    /\ now = 0

\* lines 72-80: the widgets' default values
Defaults ==
    /\ country = "Australia" /\ city = "Brisbane"
    /\ period = << 1, MaxDay >>
    /\ granularity = Daily
    /\ start_d = DateVal(1) /\ end_d = DateVal(MaxDay)

\* the server has started, no script run yet
Init ==
    /\ pc = "awaiting" /\ runs = 0
    /\ Defaults /\ Blank

\* the first run with the default widget values, past the date check
InitFirstRun ==
    /\ pc = "geocode" /\ runs = 1
    /\ Defaults /\ Blank

Stages(placeLists, tables, frames) ==
    \/ \E o \in Outcomes(placeLists) : Geocode(o)
    \/ \E i \in 1..MaxPlaces : SelectPlace(i)
    \/ \E o \in Outcomes(tables) : Stations(o)
    \/ \E j \in 1..MaxStations : SelectStation(j)
    \/ \E o \in Outcomes(Inventories) : Inventory(o)
    \/ \E o \in Outcomes(frames) : Fetch(o)
    \/ \E keep \in BOOLEAN, choice \in SUBSET { Col_temp, Col_prcp } : Render(keep, choice)

\* every interaction of a session
Next ==
    \/ \E cit \in FlowCities, per \in FlowPeriods, g \in GranularityOptions :
          Start("Australia", cit, per, g)
    \/ Stages(FlowPlaceLists, FlowStationTables, FlowFrames)
    \/ Tick

Spec == Init /\ [][Next]_vars

\* every period and granularity, one place, one station
NextSeries ==
    \/ \E per \in Periods, g \in GranularityOptions :
          Start("Australia", "Brisbane", per, g)
    \/ Stages(OnePlaceList, OneStationTable, FlowFrames)

SpecSeries == Init /\ [][NextSeries]_vars

\* one place or one station, every frame
NextPlace == Stages(AllPlaceLists, OneStationTable, FlowFrames)
SpecPlace == InitFirstRun /\ [][NextPlace]_vars

NextStation == Stages(OnePlaceList, AllStationTables, FlowFrames)
SpecStation == InitFirstRun /\ [][NextStation]_vars

NextRender == Stages(OnePlaceList, OneStationTable, AllFrames)
SpecRender == InitFirstRun /\ [][NextRender]_vars

(***************************************************************************)
(* The memoized functions called one by one, as any caller may.            *)
(***************************************************************************)
ArgsOf(fn) ==
    CASE fn = "geocode_city_country" -> { << c, "Australia", 10, "pt" >> : c \in Cities }
      [] fn = "nearby_stations" -> { << 1, 153, 27 >> }
      [] fn = "fetch_daily" -> { << << "9", "4" >>, DateVal(1), DateVal(MaxDay) >> }
      [] fn = "fetch_hourly" -> { << << "9", "4" >>, DateVal(1), DateVal(MaxDay) >> }

ValuesOf(fn) ==
    CASE fn = "geocode_city_country" -> FlowPlaceLists
      [] fn = "nearby_stations" -> FlowStationTables
      [] fn = "fetch_daily" -> FlowFrames
      [] fn = "fetch_hourly" -> FlowFrames

CallMemoized(fn, args, outcome) ==
    /\ pc = "awaiting"
    /\ Len(log) < MaxCalls
    /\ LET out == IF fn \in { "fetch_daily", "fetch_hourly" }
                  THEN SeriesOutcome(fn, args, outcome) ELSE outcome
       IN  /\ cache' = CacheAfter(fn, args, out)
           /\ log' = LogAfter(fn, args, out)
    /\ UNCHANGED << pc, runs, now, paramVars, placeVars, stationVars, pickVars, df,
                    renderVars, shown, calls >>

NextCache ==
    \/ \E fn \in CachedFns :
         \E args \in ArgsOf(fn), o \in Outcomes(ValuesOf(fn)) : CallMemoized(fn, args, o)
    \/ Tick

SpecCache == Init /\ [][NextCache]_vars

(***************************************************************************)
(* Properties.                                                             *)
(***************************************************************************)
Last(s) == s[Len(s)]

\* C1: a run whose normalised start date is later than its end date halts at
\* the date check with the validation error as its only output, and calls
\* none of the services, memoized or not.
C1_DateCheckHalts ==
    (runs > 0 /\ start_d.isDate /\ end_d.isDate /\ start_d.day > end_d.day)
        => (pc = "halted" /\ shown = << "error: date" >> /\ calls = << >>)

\* a second run halts at the date check after a first run that filled the cache
C1_Witness ==
    /\ runs = 2 /\ log # << >>
    /\ start_d.isDate /\ end_d.isDate /\ start_d.day > end_d.day
    /\ pc = "halted" /\ shown = << "error: date" >>

StageNo(fn) ==
    CASE fn = "geocode_city_country" -> 1
      [] fn = "nearby_stations" -> 2
      [] fn = "ms.stations.inventory" -> 3
      [] fn \in { "fetch_daily", "fetch_hourly" } -> 4

\* the call raised or brought back nothing
Failed(e) ==
    \/ e.result.raised
    \/ /\ ~e.result.raised
       /\ CASE e.fn = "geocode_city_country" -> Len(e.result.value) = 0
            [] e.fn = "nearby_stations" -> Len(e.result.value.rows) = 0
            [] e.fn = "ms.stations.inventory" -> FALSE
            [] OTHER -> Len(e.result.value.rows) = 0 \/ Len(e.result.value.cols) = 0

HaltMessage(e) ==
    CASE e.fn = "geocode_city_country" ->
            IF e.result.raised THEN "error: geocode" ELSE "warning: no place"
      [] e.fn = "nearby_stations" ->
            IF e.result.raised THEN "error: stations" ELSE "warning: no station"
      [] e.fn = "ms.stations.inventory" -> "none"
      [] OTHER -> IF e.result.raised THEN "error: series" ELSE "warning: empty series"

\* what a run has rendered when it makes its k-th call
RenderedBefore(k) ==
    CASE k = 1 -> { }
      [] k = 2 -> { "selectbox: place", "expander: place details" }
      [] k = 3 -> { "selectbox: place", "expander: place details",
                    "expander: station", "subheader: station", "write: station" }
      [] k = 4 -> { "selectbox: place", "expander: place details",
                    "expander: station", "subheader: station", "write: station",
                    "expander: inventory" }

\* C2: the calls of a run come in the order geocoding, station lookup,
\* (inventory,) series fetch; a call that raises or returns an empty result
\* is the last call of the run, the run has stopped, it ends with that
\* stage's message and shows nothing of a later stage; the preview, the
\* charts and the download are reached only after four calls that all
\* succeeded.
C2_StagesInOrderAndTerminal ==
    /\ \A i \in 1..Len(calls) : StageNo(calls[i].fn) = i
    /\ \A i \in 1..Len(calls) :
         Failed(calls[i]) =>
            /\ i = Len(calls)
            /\ pc \in { "halted", "crashed" }
            /\ IF calls[i].fn = "ms.stations.inventory"
               THEN \A n \in 1..Len(shown) : shown[n] \in RenderedBefore(i)
               ELSE /\ shown # << >>
                    /\ Last(shown) = HaltMessage(calls[i])
                    /\ \A n \in 1..(Len(shown) - 1) : shown[n] \in RenderedBefore(i)
    /\ (pc \in { "render", "done" } \/ (\E n \in 1..Len(shown) : shown[n] = "dataframe: preview"))
          => (Len(calls) = 4 /\ \A i \in 1..4 : ~Failed(calls[i]))

\* a run stopped by an empty series, after three stages that went through
C2_Witness ==
    /\ pc = "halted" /\ Len(calls) = 4
    /\ ~calls[4].result.raised
    /\ Last(shown) = "warning: empty series"

\* C3: every call of a service that raises ends in the script's own error
\* message and a halt.
C3_EveryFailureHandled ==
    \A i \in 1..Len(calls) :
        calls[i].result.raised =>
            /\ pc = "halted"
            /\ shown # << >>
            /\ Last(shown) \in { "error: geocode", "error: stations",
                                 "error: inventory", "error: series" }

\* C4: whatever entry i of the place select box the user picks, the latitude
\* and longitude handed to nearby_stations are those of candidate i, also
\* when several candidates have the same label.
C4_SelectedCoordinates ==
    /\ pc = "stations" =>
          /\ lat = places[place_idx].latitude
          /\ lon = places[place_idx].longitude
    /\ \A n \in 1..Len(calls) :
          calls[n].fn = "nearby_stations" =>
             /\ calls[n].args[1] = places[place_idx].latitude
             /\ calls[n].args[2] = places[place_idx].longitude

\* the second of two candidates with one label was picked, and the stations
\* were looked up
C4_Witness ==
    /\ Len(calls) >= 2 /\ calls[2].fn = "nearby_stations"
    /\ place_idx = 2
    /\ place_labels[1] = place_labels[2]
    /\ places[1] # places[2]

\* C6: the hourly function is the one called exactly when the toggle is not
\* the daily option; for dates D1, D2 its request to the data service is for
\* D1 00:00:00 to D2 23:59:00, and the daily function's request is for D1 and
\* D2 themselves.
C6_SeriesRequests ==
    \A n \in 1..Len(calls) :
        calls[n].fn \in { "fetch_daily", "fetch_hourly" } =>
           /\ (calls[n].fn = "fetch_hourly") <=> (granularity # Daily)
           /\ (Len(period) = 2 /\ calls[n].request # << >>) =>
                 calls[n].request[1] =
                    IF calls[n].fn = "fetch_hourly"
                    THEN [fn |-> "ms.hourly",
                          args |-> << station_id,
                                      [day |-> period[1], hour |-> 0,
                                       minute |-> 0, second |-> 0],
                                      [day |-> period[2], hour |-> 23,
                                       minute |-> 59, second |-> 0] >>]
                    ELSE [fn |-> "ms.daily",
                          args |-> << station_id, DateVal(period[1]),
                                      DateVal(period[2]) >>]

\* an hourly request over more than one day
C6_Witness ==
    /\ Len(calls) = 4 /\ calls[4].fn = "fetch_hourly"
    /\ calls[4].request # << >>
    /\ Len(period) = 2 /\ period[1] < period[2]

\* C7: the series is fetched for the identifier of the station table's entry
\* the station select box stands on: the first entry unless the user picks
\* another.
C7_SeriesForChosenStation ==
    /\ pc \in { "inventory", "fetch" } => station_id = st_df.rows[station_idx].id
    /\ \A n \in 1..Len(calls) :
          calls[n].fn \in { "fetch_daily", "fetch_hourly" } =>
             calls[n].args[1] = st_df.rows[station_idx].id

\* the series of the second station, whose name holds a dash, was fetched
C7_Witness ==
    /\ Len(calls) = 4 /\ calls[4].fn = "fetch_daily"
    /\ station_idx = 2 /\ st_df.hasName
    /\ InSeq(Dash, st_df.rows[2].name)
    /\ InSeq(Dash, st_df.rows[1].name)

\* C10: the name written beside the selected station's identifier is the
\* name of the station with that identifier.
C10_WrittenNameIsOfWrittenId ==
    (station_idx > 0 /\ st_df.hasName) =>
        \E j \in 1..Len(st_df.rows) :
            /\ st_df.rows[j].id = written_station.id
            /\ st_df.rows[j].name = written_station.name

(***************************************************************************)
(* Reading the download back: a UTF-8 delimited file, blank lines skipped. *)
(***************************************************************************)
CharOf(code) == LET i == CHOOSE i \in 1..Len(AsciiTable) : AsciiTable[i][2] = code
                IN  AsciiTable[i][1]

DecodeUtf8(bytes) == [i \in 1..Len(bytes) |-> CharOf(bytes[i])]

RECURSIVE SplitOn(_, _)
SplitOn(s, sep) ==
    LET k == FirstIndex(s, sep, 1)
    IN  IF k = 0 THEN << s >>
        ELSE << SubSeq(s, 1, k - 1) >> \o SplitOn(SubSeq(s, k + 1, Len(s)), sep)

CsvLines(text) == SelectSeq(SplitOn(text, Newline), LAMBDA l : l # << >>)

RECURSIVE ParseNat(_)
ParseNat(cs) ==
    IF cs = << >> THEN 0
    ELSE 10 * ParseNat(SubSeq(cs, 1, Len(cs) - 1))
         + (CHOOSE v \in 0..9 : Digits(v) = << cs[Len(cs)] >>)

ParseTime(field) ==
    LET k == FirstIndex(field, Space, 1)
    IN  IF k = 0 THEN [day |-> ParseNat(field), hour |-> 0]
        ELSE [day |-> ParseNat(SubSeq(field, 1, k - 1)),
              hour |-> ParseNat(SubSeq(field, k + 1, Len(field)))]

\* C8: the downloaded bytes read back as a delimited file have the header
\* "time" followed by the frame's columns, as many records as the frame has
\* rows, and in their first field the frame's time index, in order.
C8_CsvRoundTrip ==
    pc = "done" =>
        LET lines == CsvLines(DecodeUtf8(csv_bytes))
        IN  /\ Len(lines) >= 1
            /\ SplitOn(lines[1], Comma) = << Col_time >> \o ColNames(df.cols)
            /\ Len(lines) - 1 = Len(df.rows)
            /\ \A i \in 1..Len(df.rows) :
                  /\ Len(SplitOn(lines[i + 1], Comma)) = 1 + Len(df.cols)
                  /\ ParseTime(SplitOn(lines[i + 1], Comma)[1]) = df.rows[i].time

\* an hourly frame of two rows, one of them without any value
C8_Witness ==
    /\ pc = "done" /\ csv_bytes # << >>
    /\ Len(df.rows) = 2 /\ df.hourly
    /\ \E i \in 1..2 : \A k \in 1..Len(df.cols) : df.rows[i].vals[k] = NaN

Expiry(fn) == IF fn \in { "geocode_city_country", "nearby_stations" } THEN 3600 ELSE 1800

\* the earlier calls of call n's function with call n's arguments that
\* returned a result and were made less than the expiry time before it
Recent(n) ==
    { m \in 1..(n - 1) : /\ log[m].fn = log[n].fn
                         /\ log[m].args = log[n].args
                         /\ ~log[m].result.raised
                         /\ log[n].t - log[m].t < Expiry(log[n].fn) }

\* those of them that ran the function, and so stored what it returned
Stored(n) == { m \in Recent(n) : log[m].invoked }

\* C5 as claimed: a call with the arguments of any earlier call made less
\* than the expiry time before returns that call's result without running
\* the function again, and every other call runs it.
C5_AnyRecentCallHits ==
    \A n \in 1..Len(log) :
        /\ Recent(n) # { } =>
              /\ ~log[n].invoked
              /\ \E m \in Recent(n) : log[n].result = log[m].result
        /\ Recent(n) = { } => log[n].invoked

\* C5: a call returns the stored result without running the function exactly
\* when an earlier call with the same arguments ran the function, returned,
\* and was made less than the expiry time before; every other call runs the
\* function.
C5_StoredResultHits ==
    \A n \in 1..Len(log) :
        /\ Stored(n) # { } =>
              /\ ~log[n].invoked
              /\ \A m \in Stored(n) : log[n].result = log[m].result
        /\ Stored(n) = { } => log[n].invoked

\* a miss, a hit on it, and a new run of the function once the entry
\* expired, less than the expiry time after the hit
C5_Witness ==
    /\ Len(log) = 3
    /\ log[1].invoked /\ ~log[1].result.raised
    /\ ~log[2].invoked /\ log[2].result = log[1].result
    /\ log[3].invoked /\ log[3].fn = log[1].fn /\ log[3].args = log[1].args
    /\ log[3].t - log[2].t < Expiry(log[3].fn)

====
